---- MODULE Spec2Model ----
(***************************************************************************)
(* Tic-tac-toe (src/tictactoe.py): the game engine Game with its turn      *)
(* alternator, the three automated players RandomPlayer, SmartPlayer and   *)
(* PerfectPlayer, and the move loop of main.                               *)
(*                                                                         *)
(* Spec      : main's loop, one game after another, any difficulty, solo   *)
(*             or against a human who presses any offered key.             *)
(* SpecBoard : one call of Game.play or of a player's play() on a Game     *)
(*             whose rows were set directly (rows is a plain attribute),   *)
(*             the way a unit test constructs a position.                  *)
(*                                                                         *)
(* random.choice is a nondeterministic choice; curses drawing is left out. *)
(***************************************************************************)
EXTENDS Integers, Sequences, FiniteSets

VARIABLES
    rows,          \* Game.rows: (y, x) -> 0 | 1 | 10
    current_turn,  \* Game.current_turn
    turns,         \* Game.turns: [cache, gen] of the TurnAlternator
    won,           \* Game.won
    solo,          \* kwargs['solo']
    level,         \* index into PLAYERS (1..3), 0 before it is chosen
    first_turn,    \* PerfectPlayer.first_turn of cpu and cpu2
    pc,            \* position in main
    t,             \* loop variable of main's move loop
    ret,           \* outcome of the last play() call
    debug,         \* game.debug messages of the last player call
    message        \* last end-of-game key_prompt

vars == <<rows, current_turn, turns, won, solo, level, first_turn, pc, t,
          ret, debug, message>>

----------------------------------------------------------------------------
(* Module constants, lines 9-13 *)

Coord == (0..2) \X (0..2)

LEFT_DIAGONAL == << <<0, 0>>, <<1, 1>>, <<2, 2>> >>
RIGHT_DIAGONAL == << <<0, 2>>, <<1, 1>>, <<2, 0>> >>
CORNERS == << <<0, 0>>, <<0, 2>>, <<2, 0>>, <<2, 2>> >>
SIDES == << <<0, 1>>, <<1, 0>>, <<1, 2>>, <<2, 1>> >>
CENTER == <<1, 1>>

X == 1
O == 10
TurnValues == <<X, O>>

\* flip_loc without the modulus
flip_loc_no_mod(val) == val + 2

\* flip_loc: "Switches 0 to 2 and vice versa"
flip_loc(val) == (val + 2) % 4

Range(s) == {s[k] : k \in 1..Len(s)}

----------------------------------------------------------------------------
(* TurnAlternator: cache is the lookahead, gen the index of the value the  *)
(* generator yields next.                                                   *)

\* one next() of TurnAlternator._generate
Generate(gen) == [v |-> TurnValues[gen], gen |-> (gen % Len(TurnValues)) + 1]

\* TurnAlternator.__init__ without "eat the first value"
TurnAlternator_keeps_first == [cache |-> TurnValues[1], gen |-> 1]

\* TurnAlternator.__init__
TurnAlternator ==
    LET eaten == Generate(1)
    IN  [cache |-> TurnValues[1], gen |-> eaten.gen]

\* TurnAlternator.next
TurnsNext(ta) ==
    LET g == Generate(ta.gen)
    IN  [v |-> ta.cache, turns |-> [cache |-> g.v, gen |-> g.gen]]

\* peek written as next: it reads ahead in the generator
TurnsPeek_consumes(ta) ==
    LET g == Generate(ta.gen)
    IN  [v |-> ta.cache, turns |-> [cache |-> g.v, gen |-> g.gen]]

\* TurnAlternator.peek: the value and the alternator after the call
TurnsPeek(ta) == [v |-> ta.cache, turns |-> ta]

----------------------------------------------------------------------------
(* Game *)

EmptyRows == [c \in Coord |-> 0]

NewGame ==
    LET n == TurnsNext(TurnAlternator)
    IN  [rows |-> EmptyRows, current_turn |-> n.v, turns |-> n.turns,
         won |-> FALSE]

\* Game.lines: the coordinates of the 8 lines, in the order generated
LineSpaces ==
    [i \in 1..8 |->
        IF i <= 3 THEN [k \in 1..3 |-> <<i - 1, k - 1>>]
        ELSE IF i <= 6 THEN [k \in 1..3 |-> <<k - 1, i - 4>>]
        ELSE IF i = 7 THEN LEFT_DIAGONAL
        ELSE RIGHT_DIAGONAL]

LineValues(r, i) == [k \in 1..3 |-> r[LineSpaces[i][k]]]

Sum(values) == values[1] + values[2] + values[3]

\* list.index: the first position holding v
Index(values, v) == CHOOSE k \in 1..3 :
    values[k] = v /\ \A j \in 1..(k - 1) : values[j] # v

next_turn(g) == TurnsPeek(g.turns).v

\* line 70 with the lookahead's marker in place of the current player's
Mark_next(g, y, x) == [g.rows EXCEPT ![<<y, x>>] = next_turn(g)]

\* line 70: the current player's marker on (y, x)
Mark(g, y, x) == [g.rows EXCEPT ![<<y, x>>] = g.current_turn]

\* line 79 over the rows, the columns and the left diagonal only
Wins_seven_lines(r, turn) == \E i \in 1..7 : Sum(LineValues(r, i)) = 3 * turn

\* line 79, over all lines: "Only the current player can win"
Wins(r, turn) == \E i \in 1..8 : Sum(LineValues(r, i)) = 3 * turn

\* lines 80-81 with the turn advanced as on an ordinary move
WonGame_advance(g, r) ==
    LET n == TurnsNext(g.turns)
    IN  [g EXCEPT !.rows = r, !.won = TRUE, !.current_turn = n.v,
                  !.turns = n.turns]

\* lines 80-81: the game is won, the turn stays
WonGame(g, r) == [g EXCEPT !.rows = r, !.won = TRUE]

\* lines 87-88 without line 87: the same player stays on turn
Advance_stay(g, r) == [g EXCEPT !.rows = r]

\* lines 87-88: the game goes on with the next player
Advance(g, r) ==
    LET n == TurnsNext(g.turns)
    IN  [g EXCEPT !.rows = r, !.current_turn = n.v, !.turns = n.turns]

\* lines 89-90 with won set as on a win
DrawGame_won(g, r) == [g EXCEPT !.rows = r, !.won = TRUE]

\* lines 89-90: a draw, the turn stays and won stays False
DrawGame(g, r) == [g EXCEPT !.rows = r]

\* Game.play without the test of line 69: an occupied cell is overwritten
Game_play_overwrite(g, y, x) ==
    IF ~(y \in 0..2 /\ x \in 0..2) THEN [g |-> g, ret |-> "IndexError"]
    ELSE IF Wins(Mark(g, y, x), g.current_turn)
    THEN [g |-> WonGame(g, Mark(g, y, x)), ret |-> "True"]
    ELSE IF \E c \in Coord : Mark(g, y, x)[c] = 0
    THEN [g |-> Advance(g, Mark(g, y, x)), ret |-> "False"]
    ELSE [g |-> DrawGame(g, Mark(g, y, x)), ret |-> "True"]

\* Game.play without the full-board test of lines 84-90
Game_play_no_draw(g, y, x) ==
    IF ~(y \in 0..2 /\ x \in 0..2) THEN [g |-> g, ret |-> "IndexError"]
    ELSE IF g.rows[<<y, x>>] # 0 THEN [g |-> g, ret |-> "SpaceOccupied"]
    ELSE IF Wins(Mark(g, y, x), g.current_turn)
    THEN [g |-> WonGame(g, Mark(g, y, x)), ret |-> "True"]
    ELSE [g |-> Advance(g, Mark(g, y, x)), ret |-> "False"]

\* Game.play; ret is "True", "False", or the exception raised
Game_play(g, y, x) ==
    IF ~(y \in 0..2 /\ x \in 0..2) THEN [g |-> g, ret |-> "IndexError"]
    ELSE IF g.rows[<<y, x>>] # 0 THEN [g |-> g, ret |-> "SpaceOccupied"]
    ELSE IF Wins(Mark(g, y, x), g.current_turn)
    THEN [g |-> WonGame(g, Mark(g, y, x)), ret |-> "True"]
    ELSE IF \E c \in Coord : Mark(g, y, x)[c] = 0
    THEN [g |-> Advance(g, Mark(g, y, x)), ret |-> "False"]
    ELSE [g |-> DrawGame(g, Mark(g, y, x)), ret |-> "True"]

\* a play() outcome with the debug messages that led to it
Out(p, dbg) == [g |-> p.g, ret |-> p.ret, debug |-> dbg]

----------------------------------------------------------------------------
(* RandomPlayer *)

open_list(g) == {c \in Coord : g.rows[c] = 0}

\* RandomPlayer.play; on a full board self.display_state() does not exist
RandomPlayer_play(g) ==
    IF open_list(g) = {}
    THEN {[g |-> g, ret |-> "AttributeError", debug |-> <<>>]}
    ELSE {Out(Game_play(g, move[1], move[2]), <<"Random Playing to">>) :
             move \in open_list(g)}

----------------------------------------------------------------------------
(* SmartPlayer *)

\* the first line, in Game.lines order, whose values sum to s (0 if none)
FirstLine(g, s) ==
    IF \E i \in 1..8 : Sum(LineValues(g.rows, i)) = s
    THEN CHOOSE i \in 1..8 :
            /\ Sum(LineValues(g.rows, i)) = s
            /\ \A j \in 1..(i - 1) : Sum(LineValues(g.rows, j)) # s
    ELSE 0

\* "Find the zero and play there"
ZeroOf(g, i) == LineSpaces[i][Index(LineValues(g.rows, i), 0)]

WinLine(g) == FirstLine(g, 2 * g.current_turn)

\* line 272 testing the mover's own marker instead of the opponent's
BlockLine_own(g) == FirstLine(g, 2 * g.current_turn)

BlockLine(g) == FirstLine(g, 2 * next_turn(g))

\* SmartPlayer._play with the Block loop ahead of the Win loop
SmartPlayer__play_block_first(g) ==
    IF BlockLine(g) # 0
    THEN {Out(Game_play(g, move[1], move[2]), <<"Block Playing to">>) :
             move \in {ZeroOf(g, BlockLine(g))}}
    ELSE IF WinLine(g) # 0
    THEN {Out(Game_play(g, move[1], move[2]), <<"Win Playing to">>) :
             move \in {ZeroOf(g, WinLine(g))}}
    ELSE {}

\* SmartPlayer._play; the empty set stands for None (no move made)
SmartPlayer__play(g) ==
    IF WinLine(g) # 0
    THEN {Out(Game_play(g, move[1], move[2]), <<"Win Playing to">>) :
             move \in {ZeroOf(g, WinLine(g))}}
    ELSE IF BlockLine(g) # 0
    THEN {Out(Game_play(g, move[1], move[2]), <<"Block Playing to">>) :
             move \in {ZeroOf(g, BlockLine(g))}}
    ELSE {}

\* SmartPlayer.play
SmartPlayer_play(g) ==
    IF SmartPlayer__play(g) # {}
    THEN SmartPlayer__play(g)
    ELSE {[o EXCEPT !.debug = <<"Fall back to random">> \o o.debug] :
             o \in RandomPlayer_play(g)}

----------------------------------------------------------------------------
(* PerfectPlayer *)

\* Game.corners / Game.sides: the values at the listed locations
ValuesAt(g, locs) == [k \in 1..Len(locs) |-> g.rows[locs[k]]]

\* the outcomes of game.play(*random.choice(locations))
PlayChoice(g, locations, dbg) ==
    {Out(Game_play(g, move[1], move[2]), dbg) : move \in locations}

\* "Must be side - find it": loc is the first occupied side, or the last
\* side when the loop runs to its end
FoundSide(g) ==
    IF \E k \in 1..4 : g.rows[SIDES[k]] # 0
    THEN SIDES[CHOOSE k \in 1..4 :
            g.rows[SIDES[k]] # 0 /\ \A j \in 1..(k - 1) : g.rows[SIDES[j]] = 0]
    ELSE SIDES[4]

\* lines 328-337 with the row test made on the column
SideLocations_swapped(loc) ==
    LET y == loc[1]
        x == loc[2]
    IN  IF x = 1
        THEN {<<1, 1>>, <<0, x>>, <<2, x>>, <<1, flip_loc(x)>>}
        ELSE {<<1, 1>>, <<y, 0>>, <<y, 2>>, <<flip_loc(y), 1>>}

SideLocations(loc) ==
    LET y == loc[1]
        x == loc[2]
    IN  IF y = 1
        THEN {<<1, 1>>, <<0, x>>, <<2, x>>, <<1, flip_loc(x)>>}
        ELSE {<<1, 1>>, <<y, 0>>, <<y, 2>>, <<flip_loc(y), 1>>}

\* PerfectPlayer._first_play (the caller clears first_turn)
PerfectPlayer__first_play(g) ==
    IF g.current_turn = 1
    THEN PlayChoice(g, Range(CORNERS), <<"First play corner">>)
    ELSE IF g.rows[<<1, 1>>] # 0
    THEN PlayChoice(g, Range(CORNERS), <<"Corner to Counter Center">>)
    ELSE IF \E k \in 1..4 : ValuesAt(g, CORNERS)[k] = 1
    THEN PlayChoice(g, {CENTER}, <<"Center to Counter Corner">>)
    ELSE PlayChoice(g, SideLocations(FoundSide(g)),
                    <<"Center, Touching corner, or Opposite side">>)

\* x_spaces / o_spaces: how many lines summing to s (one marker of s, two
\* open spaces) have loc among their open spaces
Tally(g, s, loc) ==
    Cardinality({i \in 1..8 :
        /\ Sum(LineValues(g.rows, i)) = s
        /\ \E k \in 1..3 : /\ k # Index(LineValues(g.rows, i), s)
                           /\ LineSpaces[i][k] = loc})

ForkMoves(g, s) == {loc \in Coord : Tally(g, s, loc) > 1}

\* the two tallies tried the other way round
Trial_other_first(g) == IF g.current_turn = 1 THEN <<10, 1>> ELSE <<1, 10>>

\* the two tallies in the order tried: own first, then the other
Trial(g) == IF g.current_turn = 1 THEN <<1, 10>> ELSE <<10, 1>>

\* the locations taken as they are, open or not
EmptyAt_all(g, locs) == Range(locs)

\* [loc for loc in locs if the cell at loc is 0]
EmptyAt(g, locs) == {locs[k] : k \in {j \in 1..Len(locs) : g.rows[locs[j]] = 0}}

\* "opposite corner" with only the row flipped
RECURSIVE OppositeCorner_row_only(_, _, _)
OppositeCorner_row_only(g, k, dbg) ==
    IF k > 4 THEN [g |-> g, ret |-> "None", debug |-> dbg]
    ELSE IF g.rows[CORNERS[k]] # next_turn(g)
    THEN OppositeCorner_row_only(g, k + 1, dbg)
    ELSE LET y == CORNERS[k][1]
             x == CORNERS[k][2]
             p == Game_play(g, flip_loc(y), x)
             d == dbg \o <<"try opposite corner at">>
         IN  IF p.ret = "SpaceOccupied"
             THEN OppositeCorner_row_only(g, k + 1, d \o <<"Missed it">>)
             ELSE Out(p, d)

\* "opposite corner": corners k..4 in order; a SpaceOccupied is caught
RECURSIVE OppositeCorner(_, _, _)
OppositeCorner(g, k, dbg) ==
    IF k > 4 THEN [g |-> g, ret |-> "None", debug |-> dbg]
    ELSE IF g.rows[CORNERS[k]] # next_turn(g) THEN OppositeCorner(g, k + 1, dbg)
    ELSE LET y == CORNERS[k][1]
             x == CORNERS[k][2]
             p == Game_play(g, flip_loc(y), flip_loc(x))
             d == dbg \o <<"try opposite corner at">>
         IN  IF p.ret = "SpaceOccupied"
             THEN OppositeCorner(g, k + 1, d \o <<"Missed it">>)
             ELSE Out(p, d)

\* PerfectPlayer._play after the first turn, from "Center" on
PerfectTail(g) ==
    IF g.rows[<<1, 1>>] = 0
    THEN {Out(Game_play(g, 1, 1), <<"Take Center">>)}
    ELSE LET oc == OppositeCorner(g, 1, <<>>)
         IN  IF oc.ret # "None" THEN {oc}
             ELSE IF EmptyAt(g, CORNERS) # {}
             THEN PlayChoice(g, EmptyAt(g, CORNERS),
                             oc.debug \o <<"Any corner at">>)
             ELSE IF EmptyAt(g, SIDES) # {}
             THEN PlayChoice(g, EmptyAt(g, SIDES),
                             oc.debug \o <<"Any side at">>)
             ELSE {[g |-> g, ret |-> "IndexError", debug |-> oc.debug]}

\* PerfectPlayer._play after the first turn
PerfectSteady(g) ==
    IF g.rows[<<1, 1>>] = g.current_turn /\ EmptyAt(g, SIDES) # {}
    THEN PlayChoice(g, EmptyAt(g, SIDES), <<"My center, play side">>)
    ELSE IF ForkMoves(g, Trial(g)[1]) # {}
    THEN PlayChoice(g, ForkMoves(g, Trial(g)[1]), <<"Fork or block Fork at">>)
    ELSE IF ForkMoves(g, Trial(g)[2]) # {}
    THEN PlayChoice(g, ForkMoves(g, Trial(g)[2]), <<"Fork or block Fork at">>)
    ELSE PerfectTail(g)

WithFirst(outs, ft) ==
    {[g |-> o.g, ret |-> o.ret, debug |-> o.debug, first_turn |-> ft] :
        o \in outs}

\* PerfectPlayer._play
PerfectPlayer__play(g, ft) ==
    IF ft THEN WithFirst(PerfectPlayer__first_play(g), FALSE)
    ELSE WithFirst(PerfectSteady(g), ft)

\* PerfectPlayer.play: "Let smart handle Win/Block"
PerfectPlayer_play(g, ft) ==
    IF SmartPlayer__play(g) # {}
    THEN WithFirst(SmartPlayer__play(g), ft)
    ELSE PerfectPlayer__play(g, ft)

\* PLAYERS[level](game).play(), lv in 1..3
PlayerPlay(lv, g, ft) ==
    IF lv = 1 THEN WithFirst(RandomPlayer_play(g), ft)
    ELSE IF lv = 2 THEN WithFirst(SmartPlayer_play(g), ft)
    ELSE PerfectPlayer_play(g, ft)

----------------------------------------------------------------------------
(* main *)

Game == [rows |-> rows, current_turn |-> current_turn, turns |-> turns,
         won |-> won]

SetGame(g) ==
    /\ rows' = g.rows
    /\ current_turn' = g.current_turn
    /\ turns' = g.turns
    /\ won' = g.won

\* cpu_end_game's prompt
cpu_end_game(g) ==
    IF g.won
    THEN IF solo
         THEN IF g.current_turn = 1 THEN "X wins !!!!" ELSE "O wins !!!!"
         ELSE "I win !!!!"
    ELSE "Draw"

\* the prompt after a game-ending human move
user_end_game(g) == IF g.won THEN "You win !!!!" ELSE "Draw"

\* an exception leaves main
Raised(r) == r \notin {"True", "False", "None"}

\* lines 443-467 and 476-478: difficulty, who goes first, the players
Setup ==
    /\ pc = "setup"
    /\ \E lv \in 1..3, user_first \in BOOLEAN :
        /\ level' = lv
        /\ pc' = IF ~solo /\ user_first THEN "first" ELSE "cpu"
    /\ first_turn' = [cpu |-> TRUE, cpu2 |-> TRUE]
    /\ UNCHANGED <<rows, current_turn, turns, won, solo, t, ret, debug,
                   message>>

\* Game.get_interactive_move: only open cells are offered as keys
InteractiveMoves(g) == {Game_play(g, c[1], c[2]) : c \in open_list(g)}

\* line 471: the human's first move, its result not looked at
UserFirst ==
    /\ pc = "first"
    /\ \E p \in InteractiveMoves(Game) :
        /\ SetGame(p.g)
        /\ ret' = p.ret
    /\ pc' = "cpu"
    /\ debug' = <<>>
    /\ UNCHANGED <<solo, level, first_turn, t, message>>

\* line 493 without the break of line 495: the loop goes on after True
CpuPlay_no_break ==
    /\ pc = "cpu"
    /\ \E o \in PlayerPlay(level, Game, first_turn.cpu) :
        /\ SetGame(o.g)
        /\ ret' = o.ret
        /\ debug' = o.debug
        /\ first_turn' = [first_turn EXCEPT !.cpu = o.first_turn]
        /\ pc' = IF Raised(o.ret) THEN "crashed"
                 ELSE IF solo THEN "cpu2" ELSE "user"
        /\ message' = IF o.ret = "True" THEN cpu_end_game(o.g) ELSE message
    /\ UNCHANGED <<solo, level, t>>

\* line 493: cpu.play()
CpuPlay ==
    /\ pc = "cpu"
    /\ \E o \in PlayerPlay(level, Game, first_turn.cpu) :
        /\ SetGame(o.g)
        /\ ret' = o.ret
        /\ debug' = o.debug
        /\ first_turn' = [first_turn EXCEPT !.cpu = o.first_turn]
        /\ pc' = IF Raised(o.ret) THEN "crashed"
                 ELSE IF o.ret = "True" THEN "again"
                 ELSE IF solo THEN "cpu2" ELSE "user"
        /\ message' = IF o.ret = "True" THEN cpu_end_game(o.g) ELSE message
    /\ UNCHANGED <<solo, level, t>>

\* "for t in xrange(9)"
Passes == 9

\* the end of one pass of the move loop
NextPass == IF t + 1 < Passes THEN "cpu" ELSE "again"

\* line 498: cpu2.play()
Cpu2Play ==
    /\ pc = "cpu2"
    /\ \E o \in PlayerPlay(level, Game, first_turn.cpu2) :
        /\ SetGame(o.g)
        /\ ret' = o.ret
        /\ debug' = o.debug
        /\ first_turn' = [first_turn EXCEPT !.cpu2 = o.first_turn]
        /\ pc' = IF Raised(o.ret) THEN "crashed"
                 ELSE IF o.ret = "True" THEN "again"
                 ELSE NextPass
        /\ message' = IF o.ret = "True" THEN cpu_end_game(o.g) ELSE message
        /\ t' = IF o.ret = "False" THEN t + 1 ELSE t
    /\ UNCHANGED <<solo, level>>

\* line 502: game.get_interactive_move()
UserMove ==
    /\ pc = "user"
    /\ \E p \in InteractiveMoves(Game) :
        /\ SetGame(p.g)
        /\ ret' = p.ret
        /\ pc' = IF p.ret = "True" THEN "again" ELSE NextPass
        /\ message' = IF p.ret = "True" THEN user_end_game(p.g) ELSE message
        /\ t' = IF p.ret = "False" THEN t + 1 ELSE t
    /\ debug' = <<>>
    /\ UNCHANGED <<solo, level, first_turn>>

\* lines 509-516 and 443: play again with a new Game, or leave
Again ==
    /\ pc = "again"
    /\ \/ /\ pc' = "setup"
          /\ SetGame(NewGame)
          /\ level' = 0
          /\ first_turn' = [cpu |-> TRUE, cpu2 |-> TRUE]
          /\ t' = 0
          /\ ret' = "none"
          /\ debug' = <<>>
          /\ message' = ""
          /\ UNCHANGED solo
       \/ /\ pc' = "exit"
          /\ UNCHANGED <<rows, current_turn, turns, won, solo, level,
                         first_turn, t, ret, debug, message>>

Init ==
    /\ rows = NewGame.rows
    /\ current_turn = NewGame.current_turn
    /\ turns = NewGame.turns
    /\ won = NewGame.won
    /\ solo \in BOOLEAN
    /\ level = 0
    /\ first_turn = [cpu |-> TRUE, cpu2 |-> TRUE]
    /\ pc = "setup"
    /\ t = 0
    /\ ret = "none"
    /\ debug = <<>>
    /\ message = ""

Next == Setup \/ UserFirst \/ CpuPlay \/ Cpu2Play \/ UserMove \/ Again

Spec == Init /\ [][Next]_vars

\* main runs on: each call of the move loop returns (the players compute,
\* get_interactive_move waits for the keys of one legal move); only the
\* answer to 'Play again?' may stay out
SpecFair ==
    /\ Spec
    /\ WF_vars(Setup \/ UserFirst \/ CpuPlay \/ Cpu2Play \/ UserMove)

----------------------------------------------------------------------------
(* One call on a constructed position *)

\* the alternator as Game.__init__ leaves it, and after one more next()
TurnStates ==
    LET first == TurnsNext(TurnAlternator)
    IN  {first, TurnsNext(first.turns)}

InitBoard ==
    /\ rows \in [Coord -> {0, X, O}]
    /\ \E n \in TurnStates : current_turn = n.v /\ turns = n.turns
    /\ won = FALSE
    /\ solo = FALSE
    /\ level = 0
    /\ first_turn \in [cpu : BOOLEAN, cpu2 : {TRUE}]
    /\ pc = "built"
    /\ t = 0
    /\ ret = "none"
    /\ debug = <<>>
    /\ message = ""

\* game.play(y, x) on any cell, open or not
BoardPlayAt(c) ==
    /\ pc = "built"
    /\ LET p == Game_play(Game, c[1], c[2])
       IN  /\ SetGame(p.g)
           /\ ret' = p.ret
    /\ pc' = "played"
    /\ UNCHANGED <<solo, level, first_turn, t, debug, message>>

BoardPlay == \E c \in Coord : BoardPlayAt(c)

\* PLAYERS[lv](game).play(), for a PerfectPlayer before or after its
\* first turn
BoardPlayer ==
    /\ pc = "built"
    /\ \E lv \in 1..3 :
        \E o \in PlayerPlay(lv, Game, first_turn.cpu) :
            /\ SetGame(o.g)
            /\ ret' = o.ret
            /\ debug' = o.debug
            /\ level' = lv
            /\ first_turn' = [first_turn EXCEPT !.cpu = o.first_turn]
    /\ pc' = "called"
    /\ UNCHANGED <<solo, t, message>>

NextBoard == BoardPlay \/ BoardPlayer

SpecBoard == InitBoard /\ [][NextBoard]_vars

----------------------------------------------------------------------------
(* Vocabulary of the properties *)

Markers == {X, O}

Other(m) == IF m = X THEN O ELSE X

Marks(r) == Cardinality({c \in Coord : r[c] # 0})

Count(r, m) == Cardinality({c \in Coord : r[c] = m})

\* line i holds three markers m
Filled(r, i, m) == \A k \in 1..3 : r[LineSpaces[i][k]] = m

HasLine(r, m) == \E i \in 1..8 : Filled(r, i, m)

Full(r) == \A c \in Coord : r[c] # 0

\* r2 is r1 with marker m placed on the open cell c
Placed(r1, r2, c, m) ==
    /\ r1[c] = 0
    /\ r2[c] = m
    /\ \A d \in Coord \ {c} : r2[d] = r1[d]

\* a step of main in which a player or the human is asked for a move
MoveStep == pc \in {"first", "cpu", "cpu2", "user"}

\* such a step, its move accepted by Game.play
Accepted == MoveStep /\ ret' \in {"True", "False"}

GameUnchanged == UNCHANGED <<rows, current_turn, turns, won>>

\* line i holds two markers m and one open cell
TwoAndOpen(r, i, m) ==
    /\ Cardinality({k \in 1..3 : r[LineSpaces[i][k]] = m}) = 2
    /\ Cardinality({k \in 1..3 : r[LineSpaces[i][k]] = 0}) = 1

OpenOf(r, i) == CHOOSE c \in Range(LineSpaces[i]) : r[c] = 0

CanWin(r, m) == \E i \in 1..8 : TwoAndOpen(r, i, m)

\* a call of play() of a player of one of the levels lvs on a constructed
\* position
PlayerCall(lvs) == pc = "built" /\ pc' = "called" /\ level' \in lvs

ScenarioBoard ==
    [c \in Coord |->
        IF c \in {<<0, 0>>, <<0, 1>>} THEN X
        ELSE IF c = <<1, 1>> THEN O
        ELSE 0]

Abs(n) == IF n < 0 THEN -n ELSE n

CornerSet == Range(CORNERS)

SideSet == Range(SIDES)

\* the cells an opening move may take on a board with at most one marker
Prescribed(r) ==
    IF Marks(r) = 0 \/ r[CENTER] # 0 THEN CornerSet
    ELSE IF \E c \in CornerSet : r[c] # 0 THEN {CENTER}
    ELSE LET s == CHOOSE c \in SideSet : r[c] # 0
         IN  {CENTER}
             \cup {c \in CornerSet : Abs(c[1] - s[1]) + Abs(c[2] - s[2]) = 1}
             \cup {<<2 - s[1], 2 - s[2]>>}

OpeningLabels ==
    {"First play corner", "Corner to Counter Center",
     "Center to Counter Corner", "Center, Touching corner, or Opposite side"}

\* line i holds one marker m and two open cells
OneAndOpen(r, i, m) ==
    /\ Cardinality({k \in 1..3 : r[LineSpaces[i][k]] = m}) = 1
    /\ Cardinality({k \in 1..3 : r[LineSpaces[i][k]] = 0}) = 2

\* the open cells lying on two or more such lines of m
ForkCells(r, m) ==
    {c \in Coord :
        /\ r[c] = 0
        /\ Cardinality({i \in 1..8 : /\ c \in Range(LineSpaces[i])
                                     /\ OneAndOpen(r, i, m)}) >= 2}

\* a call of PerfectPlayer.play() past the player's opening move, in main
\* or on a constructed position
PerfectLaterCall ==
    \/ pc = "cpu" /\ level = 3 /\ ~first_turn.cpu
    \/ pc = "cpu2" /\ level = 3 /\ ~first_turn.cpu2
    \/ PlayerCall({3}) /\ ~first_turn.cpu

\* neither Win nor Block applies to the mover
NoWinBlock(r, m) == ~CanWin(r, m) /\ ~CanWin(r, Other(m))

\* the own-center rule applies: the mover holds the center, a side is open
OwnCenterSide(r, m) == r[CENTER] = m /\ \E c \in SideSet : r[c] = 0

\* none of the rules ahead of "opposite corner" applies to the mover m
EarlierRulesSilent(r, m) ==
    /\ NoWinBlock(r, m)
    /\ ~OwnCenterSide(r, m)
    /\ ForkCells(r, m) = {}
    /\ ForkCells(r, Other(m)) = {}
    /\ r[CENTER] # 0

\* the result of a play() that found no open cell and returned (line 247)
NoLegalMove(r) == r = "None"

Said(dbg, label) == \E k \in 1..Len(dbg) : dbg[k] = label

\* how many successive peeks are tried
MaxPeeks == 3

\* the alternator after n calls of peek
RECURSIVE Peeks(_, _)
Peeks(ta, n) == IF n = 0 THEN ta ELSE Peeks(TurnsPeek(ta).turns, n - 1)

----------------------------------------------------------------------------
(* C1: a PerfectPlayer never loses: whenever a game of difficulty 3 is     *)
(* won, it is won by the PerfectPlayer against the human, never by the     *)
(* human and never by one PerfectPlayer against the other.                  *)
C1_PerfectNeverLoses ==
    (level = 3 /\ won) => (~solo /\ message = "I win !!!!")

(* C2: Game.play on a cell that is not open raises SpaceOccupied and       *)
(* leaves rows, current_turn, the alternator and won as they were.          *)
C2_OccupiedRejected ==
    [][\A c \in Coord :
          (BoardPlayAt(c) /\ rows[c] # 0) =>
              (ret' = "SpaceOccupied" /\ GameUnchanged)]_vars

C2_Witness ==
    /\ pc = "played"
    /\ ret = "SpaceOccupied"
    /\ Marks(rows) = 4

(* C3: every accepted move changes exactly one cell, from open to the      *)
(* current player's marker, and within a game no occupied cell ever        *)
(* changes again.                                                           *)
C3_OneCellPerMove ==
    [][/\ Accepted => \E c \in Coord : Placed(rows, rows', c, current_turn)
       /\ pc # "again" =>
             \A c \in Coord : rows[c] # 0 => rows'[c] = rows[c]]_vars

C3_Witness ==
    /\ pc = "again"
    /\ Full(rows)
    /\ level = 3

(* C4: the markers placed alternate X, O, X, ... from the empty board, and *)
(* within a game current_turn changes exactly on the accepted moves that   *)
(* do not end the game.                                                     *)
C4_StrictAlternation ==
    [][pc # "again" =>
          /\ rows' # rows =>
                \E c \in Coord :
                    Placed(rows, rows', c,
                           IF Marks(rows) % 2 = 0 THEN X ELSE O)
          /\ current_turn' # current_turn <=> (Accepted /\ ret' = "False")
          /\ current_turn' # current_turn => current_turn' = Other(current_turn)]_vars

C4_Witness ==
    /\ pc = "cpu"
    /\ Marks(rows) = 4
    /\ current_turn = X
    /\ ret = "False"

(* C5: the lookahead always names the other player and is the value        *)
(* current_turn takes at the next accepted move that does not end the      *)
(* game; peeking any number of times leaves the alternator as it was and   *)
(* keeps returning the same value.                                          *)
C5_Lookahead ==
    /\ [](/\ next_turn(Game) = Other(current_turn)
          /\ \A n \in 0..MaxPeeks :
                /\ Peeks(turns, n) = turns
                /\ TurnsPeek(Peeks(turns, n)).v = next_turn(Game))
    /\ [][(Accepted /\ ret' = "False") => current_turn' = next_turn(Game)]_vars

C5_Witness ==
    /\ pc = "user"
    /\ ret = "False"
    /\ debug = <<"Block Playing to">>
    /\ current_turn = X
    /\ next_turn(Game) = O

(* C6: a move that ends the game leaves current_turn at the player who     *)
(* made it; whenever won is set the current player fills a line and the    *)
(* other player fills none, and cpu_end_game names that player.             *)
C6_WinnerIsCurrent ==
    /\ [](/\ won => /\ HasLine(rows, current_turn)
                    /\ ~HasLine(rows, Other(current_turn))
          /\ message = "X wins !!!!" => (won /\ current_turn = X)
          /\ message = "O wins !!!!" => (won /\ current_turn = O))
    /\ [][(Accepted /\ ret' = "True") =>
             /\ current_turn' = current_turn
             /\ turns' = turns
             /\ \E c \in Coord : Placed(rows, rows', c, current_turn')]_vars

C6_Witness ==
    /\ pc = "again"
    /\ won
    /\ current_turn = O
    /\ message = "O wins !!!!"
    /\ HasLine(rows, O)

(* C7: an accepted move that fills the last open cell without any line of  *)
(* three equal markers ends the game with won false: a draw.                *)
C7_FullBoardDraw ==
    [][(/\ Accepted
        /\ Full(rows')
        /\ ~HasLine(rows', X)
        /\ ~HasLine(rows', O)) =>
            (ret' = "True" /\ ~won' /\ pc' = "again" /\ message' = "Draw")]_vars

C7_Witness ==
    /\ pc = "again"
    /\ Full(rows)
    /\ ~HasLine(rows, X)
    /\ ~HasLine(rows, O)
    /\ ~won
    /\ message = "Draw"

(* C8: asked to move on a position where some line holds two of the        *)
(* mover's markers and one open cell, SmartPlayer and PerfectPlayer play   *)
(* the open cell of such a line and win, by the Win rule and never by the  *)
(* Block rule; with X on (0,0) and (0,1), O on (1,1) and X to move the     *)
(* move is (0,2).                                                           *)
C8_TakesWin ==
    [][(PlayerCall({2, 3}) /\ CanWin(rows, current_turn)) =>
          /\ \E i \in 1..8 :
                /\ TwoAndOpen(rows, i, current_turn)
                /\ Placed(rows, rows', OpenOf(rows, i), current_turn)
          /\ ret' = "True"
          /\ won'
          /\ debug' = <<"Win Playing to">>
          /\ (rows = ScenarioBoard /\ current_turn = X) =>
                Placed(rows, rows', <<0, 2>>, X)]_vars

C8_Witness ==
    /\ pc = "called"
    /\ level = 2
    /\ Placed(ScenarioBoard, rows, <<0, 2>>, X)
    /\ current_turn = X
    /\ won
    /\ ret = "True"

(* C9: asked to move on a position where the mover has no line with two    *)
(* own markers and one open cell but the opponent has one, SmartPlayer     *)
(* plays the open cell of such a line of the opponent.                      *)
C9_BlocksLoss ==
    [][(/\ PlayerCall({2})
        /\ ~CanWin(rows, current_turn)
        /\ CanWin(rows, Other(current_turn))) =>
            \E i \in 1..8 :
                /\ TwoAndOpen(rows, i, Other(current_turn))
                /\ Placed(rows, rows', OpenOf(rows, i), current_turn)]_vars

C9_Witness ==
    /\ pc = "called"
    /\ level = 2
    /\ debug = <<"Block Playing to">>
    /\ current_turn = X
    /\ rows[<<0, 0>>] = X
    /\ rows[<<0, 1>>] = X
    /\ rows[<<0, 2>>] = O
    /\ Marks(rows) = 3

(* C10: in main, the first call of a PerfectPlayer in a game moves to a    *)
(* prescribed cell: a corner on the empty board or when the center is      *)
(* taken, the center when a corner is taken, and when a side cell is taken *)
(* the center, a corner next to that cell or the side cell opposite it.    *)
(* That call runs the opening logic and clears first_turn; no later call   *)
(* of the game runs it.                                                     *)
C10_Opening ==
    [][\A who \in {"cpu", "cpu2"} :
          /\ (pc = who /\ level = 3 /\ t = 0) =>
                /\ \E c \in Prescribed(rows) :
                      Placed(rows, rows', c, current_turn)
                /\ \E l \in OpeningLabels : debug' = <<l>>
                /\ first_turn[who]
                /\ ~first_turn'[who]
          /\ (pc = who /\ level = 3 /\ t > 0) =>
                /\ \A k \in 1..Len(debug') : debug'[k] \notin OpeningLabels
                /\ ~first_turn[who]
                /\ ~first_turn'[who]]_vars

C10_Witness ==
    /\ pc = "user"
    /\ level = 3
    /\ t = 0
    /\ debug = <<"Center, Touching corner, or Opposite side">>
    /\ rows[<<1, 0>>] = X
    /\ rows[<<1, 2>>] = O

(* C11, as stated: with X on corner (0,0), O to move and holding the       *)
(* center, PerfectPlayer plays (2,2) when it is open and an open corner    *)
(* when (2,2) is occupied.                                                  *)
C11_OppositeCornerAlways ==
    [][(/\ PerfectLaterCall
        /\ current_turn = O
        /\ rows[<<0, 0>>] = X
        /\ rows[CENTER] = O) =>
            IF rows[<<2, 2>>] = 0
            THEN Placed(rows, rows', <<2, 2>>, O)
            ELSE \E c \in CornerSet : Placed(rows, rows', c, O)]_vars

(* C11, amended: with the opponent on corner (0,0) and the mover holding   *)
(* the center, when none of the rules ahead of "opposite corner" applies   *)
(* (Win, Block, own center with an open side, fork, block fork),           *)
(* PerfectPlayer plays (2,2) when it is open; when (2,2) is occupied the   *)
(* SpaceOccupied is caught and it plays an open corner if there is one.    *)
C11_OppositeCornerWhenReached ==
    [][(/\ PerfectLaterCall
        /\ rows[<<0, 0>>] = Other(current_turn)
        /\ rows[CENTER] = current_turn
        /\ EarlierRulesSilent(rows, current_turn)) =>
            IF rows[<<2, 2>>] = 0
            THEN /\ Placed(rows, rows', <<2, 2>>, current_turn)
                 /\ debug' = <<"try opposite corner at">>
            ELSE /\ Len(debug') >= 2
                 /\ debug'[1] = "try opposite corner at"
                 /\ debug'[2] = "Missed it"
                 /\ (\E c \in CornerSet : rows[c] = 0) =>
                        \E c \in CornerSet :
                            Placed(rows, rows', c, current_turn)]_vars

C11_Witness ==
    /\ pc = "called"
    /\ level = 3
    /\ debug = <<"try opposite corner at">>
    /\ rows[<<0, 0>>] = X
    /\ rows[CENTER] = O
    /\ rows[<<2, 2>>] = O
    /\ \A c \in SideSet : rows[c] # 0
    /\ Marks(rows) = 8

(* C12: in main no call of a player ends in an exception: every call       *)
(* returns with a move accepted, none raises SpaceOccupied or addresses a  *)
(* cell outside the board; a refused attempt ("Missed it") happens only    *)
(* right after "try opposite corner", and the call goes on to a further    *)
(* candidate.                                                               *)
C12_NoErrorEscapes ==
    /\ [](pc # "crashed")
    /\ [][(pc \in {"cpu", "cpu2"}) =>
             (/\ ret' \in {"True", "False"}
              /\ \E c \in Coord : Placed(rows, rows', c, current_turn)
              /\ \A k \in 1..Len(debug') :
                    debug'[k] = "Missed it" =>
                        (/\ k > 1
                         /\ debug'[k - 1] = "try opposite corner at"
                         /\ k < Len(debug')))]_vars

C12_Witness ==
    /\ pc = "user"
    /\ level = 3
    /\ ret = "False"
    /\ Len(debug) = 3
    /\ debug[2] = "Missed it"

(* C13: asked to move on a full board, RandomPlayer signals that there is  *)
(* no legal move (it shows 'The board is full' and returns None) and       *)
(* leaves the Game unchanged.                                               *)
C13_RandomFullBoard ==
    [][(PlayerCall({1}) /\ Full(rows)) =>
          (NoLegalMove(ret') /\ GameUnchanged)]_vars

(* C14: an accepted Game.play sets won and returns True exactly when the   *)
(* mover's marker then fills one of the 8 lines; this holds also for the   *)
(* move that fills the last open cell, which is then a win, not a draw.    *)
C14_WinExact ==
    [][\A c \in Coord :
          (BoardPlayAt(c) /\ rows[c] = 0) =>
              (/\ won' <=> HasLine(rows', current_turn)
               /\ won' => ret' = "True"
               /\ ret' = "True" <=> (won' \/ Full(rows')))]_vars

C14_Witness ==
    /\ pc = "played"
    /\ Full(rows)
    /\ won
    /\ ret = "True"
    /\ Filled(rows, 8, X)
    /\ ~HasLine(rows, O)
    /\ Count(rows, X) = 5

(* C15: past its opening move, when neither Win, Block nor the own-center  *)
(* rule applies, a PerfectPlayer plays an open cell lying on two or more   *)
(* lines that each hold one marker of its own and two open cells, if there *)
(* is one; only if there is none, and some open cell lies on two or more   *)
(* such lines of the other player, it plays one of those.                  *)
C15_ForkBeforeBlockFork ==
    [][(/\ PerfectLaterCall
        /\ NoWinBlock(rows, current_turn)
        /\ ~OwnCenterSide(rows, current_turn)) =>
            (IF ForkCells(rows, current_turn) # {}
             THEN \E c \in ForkCells(rows, current_turn) :
                      Placed(rows, rows', c, current_turn)
             ELSE ForkCells(rows, Other(current_turn)) # {} =>
                      \E c \in ForkCells(rows, Other(current_turn)) :
                          Placed(rows, rows', c, current_turn))]_vars

C15_Witness ==
    /\ pc = "called"
    /\ level = 3
    /\ debug = <<"Fork or block Fork at">>
    /\ rows[<<0, 1>>] = X /\ rows[<<1, 2>>] = X /\ rows[<<2, 1>>] = X
    /\ rows[<<1, 0>>] = O /\ rows[CENTER] = O
    /\ rows[<<0, 2>>] = 0 /\ rows[<<2, 2>>] = 0
    /\ rows[<<2, 0>>] = O
    /\ rows[<<0, 0>>] = 0

(* C16: in main, whenever a PerfectPlayer gets as far as its last rule     *)
(* (no Win, Block, own-center side, fork, open center or open corner), a   *)
(* side cell is open, and the call ends by playing a side cell; a call of  *)
(* PerfectPlayer.play() never ends without an accepted move.                *)
C16_AnySideFound ==
    [][(pc \in {"cpu", "cpu2"} /\ level = 3) =>
          (/\ ret' \in {"True", "False"}
           /\ Said(debug', "Any side at") =>
                  \E c \in SideSet : Placed(rows, rows', c, current_turn)
           /\ (/\ PerfectLaterCall
               /\ EarlierRulesSilent(rows, current_turn)
               /\ \A c \in CornerSet : rows[c] # 0) =>
                  (/\ \E c \in SideSet : rows[c] = 0
                   /\ debug'[Len(debug')] = "Any side at"
                   /\ \E c \in SideSet :
                          Placed(rows, rows', c, current_turn)))]_vars

C16_Witness ==
    /\ pc \in {"user", "cpu", "cpu2", "again"}
    /\ level = 3
    /\ ret \in {"True", "False"}
    /\ Said(debug, "Any side at")
    /\ \A c \in CornerSet : rows[c] # 0
    /\ rows[CENTER] # 0

(* C17 as stated: on every coordinate of a cell of the board, flip_loc     *)
(* swaps 0 and 2 and leaves 1 as it is.                                     *)
C17_FlipFixesOne ==
    \A c \in DOMAIN rows :
        flip_loc(c[1]) = (IF c[1] = 1 THEN 1 ELSE 2 - c[1])

(* C17: flip_loc maps 0 to 2 and 2 to 0, and maps 1 to 3; where the        *)
(* opposite-corner rule places a marker, the cell is the reflection        *)
(* through the center of a corner held by the other player.                *)
C17_FlipSwapsEnds ==
    /\ [](flip_loc(0) = 2 /\ flip_loc(2) = 0 /\ flip_loc(1) = 3)
    /\ [][(/\ pc \in {"cpu", "cpu2"}
           /\ level = 3
           /\ Len(debug') > 0
           /\ debug'[Len(debug')] = "try opposite corner at") =>
              \E c \in CornerSet :
                  /\ rows[c] = Other(current_turn)
                  /\ Placed(rows, rows', <<2 - c[1], 2 - c[2]>>,
                            current_turn)]_vars

C17_Witness ==
    /\ pc \in {"user", "cpu", "cpu2", "again"}
    /\ level = 3
    /\ Len(debug) = 3
    /\ debug[1] = "try opposite corner at"
    /\ debug[2] = "Missed it"
    /\ debug[3] = "try opposite corner at"

(* C18: every game of main ends: from the set-up on, some Game.play        *)
(* returns True; at that point between 5 and 9 cells are marked, one per   *)
(* accepted move, and no cell is marked on that Game afterwards.           *)
C18_GamesEnd ==
    /\ [](pc = "again" => (ret = "True" /\ Marks(rows) \in 5..9))
    /\ [][(ret = "True") => (rows' = rows \/ rows' = EmptyRows)]_vars
    /\ [][(MoveStep /\ ret' = "True") => pc' = "again"]_vars
    /\ (pc = "setup") ~> (pc = "again")

C18_Witness ==
    /\ pc = "again"
    /\ ret = "True"
    /\ won
    /\ Marks(rows) = 5

(* C19: in main the X markers are as many as the O markers or one more;    *)
(* while a game is going on, X is to move exactly when the two counts are  *)
(* equal, and no line holds three equal markers.                            *)
C19_Counts ==
    /\ Count(rows, X) - Count(rows, O) \in {0, 1}
    /\ pc \in {"setup", "first", "cpu", "cpu2", "user"} =>
          /\ current_turn = X <=> Count(rows, X) = Count(rows, O)
          /\ current_turn = O <=> Count(rows, X) = Count(rows, O) + 1
          /\ ~HasLine(rows, X)
          /\ ~HasLine(rows, O)

C19_Witness ==
    /\ pc = "user"
    /\ current_turn = O
    /\ Count(rows, X) = 4
    /\ Count(rows, O) = 3

(* C20: a solo game of two PerfectPlayers ends only as a draw: the board   *)
(* is full, won is False and the prompt is 'Draw'; neither call raises.    *)
C20_SoloPerfectDraws ==
    /\ []((solo /\ level = 3) =>
            (/\ ~won
             /\ pc # "crashed"
             /\ pc = "again" =>
                    (Full(rows) /\ ret = "True" /\ message = "Draw")
             /\ Full(rows) => pc \in {"again", "exit"}))
    /\ (solo /\ level = 3 /\ pc = "cpu" /\ Marks(rows) = 0)
           ~> (pc = "again" /\ Full(rows) /\ ~won)

C20_Witness ==
    /\ solo
    /\ level = 3
    /\ pc = "again"
    /\ Full(rows)
    /\ ~won
    /\ message = "Draw"

====
